---------------------------- MODULE Spec2Model ----------------------------
(***************************************************************************)
(* Practice tracker backend (src/backend/main.py, src/backend/database.py) *)
(* as a state machine.  The state is the content of the SQLite tables the  *)
(* request handlers read and write, the server clock, and the response to  *)
(* the last request.  Every handler of main.py is an `async def` without   *)
(* an await inside, run on one event loop: a handler runs from its first   *)
(* query to its commit without another handler in between, so one request  *)
(* is one action.                                                          *)
(*                                                                         *)
(* Dates are proleptic Gregorian ordinals (date.toordinal()), datetimes    *)
(* are counted in ticks, TicksPerDay ticks to the day.  A nullable column  *)
(* or an optional request field holds None (<<>>) or Some(v) (<<v>>).      *)
(***************************************************************************)
EXTENDS Integers, Sequences, FiniteSets, TLC

VARIABLES
    instruments,   \* table Instrument:       id -> row
    defs,          \* table TaskDefinitions:  id -> row
    occs,          \* table TaskOccurrences:  id -> row
    completions,   \* table TaskCompletions:  id -> row
    sessions,      \* table PracticeSession:  id -> row
    now,           \* the UTC clock, in ticks
    tz,            \* offset of the server's local time from UTC, in ticks
    resp,          \* the request last handled and its response
    gen            \* generate_task_occurrences called on its own (SpecGen)

vars == <<instruments, defs, occs, completions, sessions, now, tz, resp, gen>>

db == <<instruments, defs, occs, completions, sessions>>

---------------------------------------------------------------------------
(* Bounds of the model *)

MaxFreq == 2          \* frequency_value ranges over -1 .. MaxFreq
MaxCompletions == 2   \* rows of TaskCompletions
MaxTicks == 4         \* ticks the clock advances in one behaviour
MaxInstruments == 1   \* rows of Instrument
MaxDefs == 1          \* rows of TaskDefinitions
MaxSessions == 1      \* rows of PracticeSession
GenSpan == 61         \* SpecGen: start dates and horizons span this many days
StartDay == 739925    \* the UTC date at which a behaviour starts

(* Constants of the program and of the Python runtime it runs on *)

HorizonDays == 90     \* generate_task_occurrences: date.today() + 90 days
DaysPerWeek == 7      \* timedelta(weeks=n)
DaysPerMonth == 30    \* "Approximate: add 30 days per month"
WeeklyWindow == 7     \* get_completion_rate: period == "weekly"
MonthlyWindow == 30   \* get_completion_rate: any other period
DateMin == 1          \* date.min.toordinal()
DateMax == 3652059    \* date.max.toordinal()
TicksPerDay == 2      \* resolution of the modelled clock

---------------------------------------------------------------------------
(* Values *)

None == <<>>
Some(v) == <<v>>
IsNone(x) == x = <<>>
Get(x) == x[1]

\* An id no table holds: a request for a row that does not exist.
NoSuchId == 0

\* generate_uuid(): an id no row of any table has or refers to.  Ids are
\* opaque, so which of the unused ids it is makes no difference: it is the
\* least one.  FreshIds(used, k) are the ids of k calls in a row.
generate_uuid(used) ==
    CHOOSE id \in 1 .. (Cardinality(used) + 1) :
        id \notin used /\ \A m \in 1 .. (id - 1) : m \in used

RECURSIVE FreshIds(_, _)
FreshIds(used, k) ==
    IF k = 0 THEN <<>>
    ELSE LET id == generate_uuid(used)
         IN  <<id>> \o FreshIds(used \cup {id}, k - 1)

FrequencyType == {"days", "weekly", "monthly"}
FreqValues == (0 - 1) .. MaxFreq

\* date.isoformat(): the text of a date; only this text parses back.
IsoFormat(d) == <<d>>
\* A text date.fromisoformat rejects.
BadDateText == <<>>
\* date.fromisoformat(text): the date, or ValueError.
FromIsoFormat(text) ==
    IF Len(text) = 1 /\ text[1] \in DateMin .. DateMax
    THEN [ok |-> TRUE, date |-> text[1]]
    ELSE [ok |-> FALSE, date |-> DateMin]

\* datetime.date(), datetime.time(), datetime.combine(date, time)
DateOf(ts) == ts \div TicksPerDay
TimeOf(ts) == ts % TicksPerDay
Combine(d, t) == d * TicksPerDay + t

\* datetime.utcnow() and date.today(): the latter is the local date.
UtcNow == now
Today == DateOf(now + tz)

Max(S) == CHOOSE x \in S : \A y \in S : y <= x

\* f with the rows of g added (g's ids are fresh)
Merge(f, g) == [k \in DOMAIN f \cup DOMAIN g |-> IF k \in DOMAIN g THEN g[k] ELSE f[k]]
\* f without the rows of ids
Without(f, ids) == [k \in DOMAIN f \ ids |-> f[k]]

EmptyTable == [k \in {} |-> k]

NoResp == [op |-> "none"]
NoGen == [pc |-> "idle"]

\* startup_event: the "Practice General" row of PracticeSessionDefinition,
\* the first id handed out.
PracticeGeneralId == generate_uuid({})

\* The ids in use
UsedIds ==
    {PracticeGeneralId} \cup DOMAIN instruments \cup DOMAIN defs \cup DOMAIN occs
    \cup DOMAIN completions \cup DOMAIN sessions
    \cup {completions[c].task_occurrence_id : c \in DOMAIN completions}

---------------------------------------------------------------------------
(* generate_task_occurrences *)

\* StepDays with the weekly branch adding days instead of weeks.
StepDays_WeeksAsDays(frequency_type, frequency_value) ==
    CASE frequency_type = "days" -> frequency_value
      [] frequency_type = "weekly" -> frequency_value
      [] frequency_type = "monthly" -> DaysPerMonth * frequency_value
      [] OTHER -> 0

\* The amount the loop adds to current_date in one iteration; a
\* frequency_type none of the three branches matches adds nothing.
StepDays(frequency_type, frequency_value) ==
    CASE frequency_type = "days" -> frequency_value
      [] frequency_type = "weekly" -> DaysPerWeek * frequency_value
      [] frequency_type = "monthly" -> DaysPerMonth * frequency_value
      [] OTHER -> 0

\* DueDates for a loop `while current_date < end_date`.
RECURSIVE DueDates_ExclusiveEnd(_, _, _)
DueDates_ExclusiveEnd(current_date, end_date, step) ==
    IF current_date < end_date
    THEN <<current_date>> \o DueDates_ExclusiveEnd(current_date + step, end_date, step)
    ELSE <<>>

\* The loop `while current_date <= end_date`, for a step > 0: the due dates
\* it appends, in order.
RECURSIVE DueDates(_, _, _)
DueDates(current_date, end_date, step) ==
    IF current_date <= end_date
    THEN <<current_date>> \o DueDates(current_date + step, end_date, step)
    ELSE <<>>

\* GenLoop for a loop that tests its condition after the body: the start
\* date is appended whatever the end date.
GenLoop_AtLeastOnce(start, end_date, step) ==
    IF step = 0 THEN [outcome |-> "NoTermination", dates |-> <<>>]
    ELSE IF step < 0 THEN [outcome |-> "OverflowError", dates |-> <<>>]
    ELSE LET dates == <<start>> \o DueDates(start + step, end_date, step)
         IN  IF dates[Len(dates)] + step > DateMax
             THEN [outcome |-> "OverflowError", dates |-> <<>>]
             ELSE [outcome |-> "ok", dates |-> dates]

\* How the loop ends and what it has appended by then.
\*   "ok"            the loop exits and the occurrences are committed
\*   "OverflowError" current_date += timedelta(..) leaves date.min..date.max;
\*                   raised before db.add_all, nothing is inserted
\*   "NoTermination" the step is 0 and current_date <= end_date for ever
\* With a step < 0 current_date only decreases, so the loop condition stays
\* true until the addition passes date.min.
GenLoop(start, end_date, step) ==
    IF start > end_date THEN [outcome |-> "ok", dates |-> <<>>]
    ELSE IF step = 0 THEN [outcome |-> "NoTermination", dates |-> <<>>]
    ELSE IF step < 0 THEN [outcome |-> "OverflowError", dates |-> <<>>]
    ELSE LET dates == DueDates(start, end_date, step)
         IN  IF dates[Len(dates)] + step > DateMax
             THEN [outcome |-> "OverflowError", dates |-> <<>>]
             ELSE [outcome |-> "ok", dates |-> dates]

\* The row the loop builds for one due date.
NewOccurrence(def_id, task_def, due) ==
    [task_definition_id |-> def_id,
     instrument_id |-> task_def.instrument_id,
     due_date |-> due,
     task_type |-> task_def.task_type,
     completed |-> FALSE,
     completed_at |-> None,
     notes |-> None,
     photo_url |-> None]

\* generate_task_occurrences(task_def, db, end_date): the rows it commits,
\* with the ids generate_uuid gives them; `used` are the ids in use.
generate_task_occurrences(def_id, task_def, end_date, used) ==
    LET loop == GenLoop(task_def.start_date, end_date,
                        StepDays(task_def.frequency_type, task_def.frequency_value))
        n == Len(loop.dates)
        ids == FreshIds(used, n)
    IN  [outcome |-> loop.outcome,
         dates |-> loop.dates,
         rows |-> [id \in {ids[k] : k \in 1 .. n} |->
                      NewOccurrence(def_id, task_def,
                                    loop.dates[CHOOSE k \in 1 .. n : ids[k] = id])]]

\* end_date = None: date.today() + timedelta(days=90)
DefaultHorizon == Today + HorizonDays

---------------------------------------------------------------------------
(* POST /api/instruments *)

InstrumentNames == {"Trumpet"}

create_instrument(name) ==
    LET id == generate_uuid(UsedIds)
    IN  [instruments |-> Merge(instruments, (id :> [name |-> name])),
         resp |-> [op |-> "create_instrument", status |-> 200, id |-> id]]

CreateInstrument ==
    /\ Cardinality(DOMAIN instruments) < MaxInstruments
    /\ \E name \in InstrumentNames :
         LET r == create_instrument(name)
         IN  /\ instruments' = r.instruments
             /\ resp' = r.resp
    /\ UNCHANGED <<defs, occs, completions, sessions, now, tz, gen>>

---------------------------------------------------------------------------
(* POST /api/task-definitions *)

\* The handler: 404 for an unknown instrument; the definition is committed
\* (db.commit, line 580) before generate_task_occurrences runs, so whatever
\* happens in the loop the definition stays.
\* create_task_definition without the query for the instrument.
create_task_definition_AnyInstrument(task_def) ==
    LET req == [op |-> "create_task_definition",
                instrument_id |-> task_def.instrument_id,
                frequency_value |-> task_def.frequency_value]
        parsed == FromIsoFormat(task_def.start_date)
        def_id == generate_uuid(UsedIds)
        new_def == [instrument_id |-> task_def.instrument_id,
                    task_type |-> task_def.task_type,
                    frequency_type |-> task_def.frequency_type,
                    frequency_value |-> task_def.frequency_value,
                    start_date |-> parsed.date]
        g == generate_task_occurrences(def_id, new_def, DefaultHorizon, UsedIds \cup {def_id})
        unchanged == [defs |-> defs, occs |-> occs]
    IN  IF FALSE
        THEN unchanged @@ [resp |-> req @@ [status |-> 404, error |-> "Instrument not found",
                                            generate |-> "not called"]]
        ELSE IF ~parsed.ok
        THEN unchanged @@ [resp |-> req @@ [status |-> 500, error |-> "ValueError",
                                            generate |-> "not called"]]
        ELSE IF g.outcome = "ok"
        THEN [defs |-> Merge(defs, (def_id :> new_def)),
              occs |-> Merge(occs, g.rows),
              resp |-> req @@ [status |-> 200, error |-> "none", generate |-> "ok"]]
        ELSE [defs |-> Merge(defs, (def_id :> new_def)),
              occs |-> occs,
              resp |-> req @@ [status |-> IF g.outcome = "NoTermination" THEN 0 ELSE 500,
                               error |-> g.outcome, generate |-> g.outcome]]

create_task_definition(task_def) ==
    LET req == [op |-> "create_task_definition",
                instrument_id |-> task_def.instrument_id,
                frequency_value |-> task_def.frequency_value]
        parsed == FromIsoFormat(task_def.start_date)
        def_id == generate_uuid(UsedIds)
        new_def == [instrument_id |-> task_def.instrument_id,
                    task_type |-> task_def.task_type,
                    frequency_type |-> task_def.frequency_type,
                    frequency_value |-> task_def.frequency_value,
                    start_date |-> parsed.date]
        g == generate_task_occurrences(def_id, new_def, DefaultHorizon, UsedIds \cup {def_id})
        unchanged == [defs |-> defs, occs |-> occs]
    IN  IF task_def.instrument_id \notin DOMAIN instruments
        THEN unchanged @@ [resp |-> req @@ [status |-> 404, error |-> "Instrument not found",
                                            generate |-> "not called"]]
        ELSE IF ~parsed.ok
        THEN unchanged @@ [resp |-> req @@ [status |-> 500, error |-> "ValueError",
                                            generate |-> "not called"]]
        ELSE IF g.outcome = "ok"
        THEN [defs |-> Merge(defs, (def_id :> new_def)),
              occs |-> Merge(occs, g.rows),
              resp |-> req @@ [status |-> 200, error |-> "none", generate |-> "ok"]]
        ELSE [defs |-> Merge(defs, (def_id :> new_def)),
              occs |-> occs,
              resp |-> req @@ [status |-> IF g.outcome = "NoTermination" THEN 0 ELSE 500,
                               error |-> g.outcome, generate |-> g.outcome]]

\* The start dates requests name, as offsets from the first day: chosen per
\* frequency type so that a definition has a handful of occurrences up to
\* the horizon, some already due.
StartOffsets(frequency_type) ==
    CASE frequency_type = "days" -> {89, 93}
      [] frequency_type = "weekly" -> {80}
      [] OTHER -> {0 - 61, 0 - 20}

TaskDefinitionCreate ==
    UNION { { [instrument_id |-> i, task_type |-> "Practice", frequency_type |-> ft,
               frequency_value |-> n, start_date |-> s] :
                i \in DOMAIN instruments \cup {NoSuchId},
                n \in FreqValues,
                s \in {BadDateText} \cup {IsoFormat(StartDay + off) : off \in StartOffsets(ft)} } :
            ft \in FrequencyType }

CreateTaskDefinition ==
    /\ Cardinality(DOMAIN defs) < MaxDefs
    /\ \E task_def \in TaskDefinitionCreate :
         LET r == create_task_definition(task_def)
         IN  /\ defs' = r.defs
             /\ occs' = r.occs
             /\ resp' = r.resp
    /\ UNCHANGED <<instruments, completions, sessions, now, tz, gen>>

---------------------------------------------------------------------------
(* DELETE /api/task-definitions/{task_def_id} *)

\* The ORM cascade (relationship task_occurrences, cascade="all, delete-orphan")
\* deletes the definition's occurrences, then the definition.  The column
\* TaskCompletions.task_occurrence_id is a foreign key to TaskOccurrences.id
\* with no ON DELETE rule, and every connection runs PRAGMA foreign_keys=ON:
\* deleting an occurrence a completion references fails with IntegrityError
\* at the commit, and the transaction is rolled back.
OccurrencesOf(task_def_id) == {o \in DOMAIN occs : occs[o].task_definition_id = task_def_id}

Referenced(occ_ids) == \E c \in DOMAIN completions : completions[c].task_occurrence_id \in occ_ids

delete_task_definition(task_def_id) ==
    LET req == [op |-> "delete_task_definition", id |-> task_def_id]
        unchanged == [defs |-> defs, occs |-> occs]
    IN  IF task_def_id \notin DOMAIN defs
        THEN unchanged @@ [resp |-> req @@ [status |-> 404, error |-> "Task definition not found"]]
        ELSE IF Referenced(OccurrencesOf(task_def_id))
        THEN unchanged @@ [resp |-> req @@ [status |-> 500, error |-> "IntegrityError"]]
        ELSE [defs |-> Without(defs, {task_def_id}),
              occs |-> Without(occs, OccurrencesOf(task_def_id)),
              resp |-> req @@ [status |-> 200, error |-> "none"]]

DeleteTaskDefinition ==
    /\ \E task_def_id \in DOMAIN defs \cup {NoSuchId} :
         LET r == delete_task_definition(task_def_id)
         IN  /\ defs' = r.defs
             /\ occs' = r.occs
             /\ resp' = r.resp
    /\ UNCHANGED <<instruments, completions, sessions, now, tz, gen>>

---------------------------------------------------------------------------
(* POST /api/tasks/{task_id}/complete *)

\* The request body (TaskCompletion): notes and photo_url, both optional.
CompletionBodies ==
    { [notes |-> None, photo_url |-> None],
      [notes |-> Some("done"), photo_url |-> Some("a.jpg")] }

\* complete_task with a completion record that does not carry the note.
complete_task_RecordWithoutNote(task_id, completion) ==
    LET req == [op |-> "complete_task", id |-> task_id, body |-> completion]
        task == occs[task_id]
        done == [task EXCEPT !.completed = TRUE,
                             !.completed_at = Some(UtcNow),
                             !.notes = completion.notes,
                             !.photo_url = completion.photo_url]
        cid == generate_uuid(UsedIds)
        task_completion == [task_occurrence_id |-> task_id,
                            instrument_id |-> task.instrument_id,
                            task_type |-> task.task_type,
                            completed_at |-> Some(UtcNow),
                            notes |-> None,
                            photo_url |-> completion.photo_url]
    IN  IF task_id \notin DOMAIN occs
        THEN [occs |-> occs, completions |-> completions,
              resp |-> req @@ [status |-> 404, error |-> "Task not found"]]
        ELSE [occs |-> [occs EXCEPT ![task_id] = done],
              completions |-> Merge(completions, (cid :> task_completion)),
              resp |-> req @@ [status |-> 200, error |-> "none", task |-> done]]

\* complete_task that leaves an occurrence that is already completed alone.
complete_task_OnceOnly(task_id, completion) ==
    LET req == [op |-> "complete_task", id |-> task_id, body |-> completion]
        task == occs[task_id]
        done == [task EXCEPT !.completed = TRUE,
                             !.completed_at = Some(UtcNow),
                             !.notes = completion.notes,
                             !.photo_url = completion.photo_url]
        cid == generate_uuid(UsedIds)
        task_completion == [task_occurrence_id |-> task_id,
                            instrument_id |-> task.instrument_id,
                            task_type |-> task.task_type,
                            completed_at |-> Some(UtcNow),
                            notes |-> completion.notes,
                            photo_url |-> completion.photo_url]
    IN  IF task_id \notin DOMAIN occs
        THEN [occs |-> occs, completions |-> completions,
              resp |-> req @@ [status |-> 404, error |-> "Task not found"]]
        ELSE IF task.completed
        THEN [occs |-> occs, completions |-> completions,
              resp |-> req @@ [status |-> 200, error |-> "none", task |-> task]]
        ELSE [occs |-> [occs EXCEPT ![task_id] = done],
              completions |-> Merge(completions, (cid :> task_completion)),
              resp |-> req @@ [status |-> 200, error |-> "none", task |-> done]]

\* complete_task that flips the completed flag instead of setting it.
complete_task_Toggle(task_id, completion) ==
    LET req == [op |-> "complete_task", id |-> task_id, body |-> completion]
        task == occs[task_id]
        done == [task EXCEPT !.completed = ~task.completed,
                             !.completed_at = Some(UtcNow),
                             !.notes = completion.notes,
                             !.photo_url = completion.photo_url]
        cid == generate_uuid(UsedIds)
        task_completion == [task_occurrence_id |-> task_id,
                            instrument_id |-> task.instrument_id,
                            task_type |-> task.task_type,
                            completed_at |-> Some(UtcNow),
                            notes |-> completion.notes,
                            photo_url |-> completion.photo_url]
    IN  IF task_id \notin DOMAIN occs
        THEN [occs |-> occs, completions |-> completions,
              resp |-> req @@ [status |-> 404, error |-> "Task not found"]]
        ELSE [occs |-> [occs EXCEPT ![task_id] = done],
              completions |-> Merge(completions, (cid :> task_completion)),
              resp |-> req @@ [status |-> 200, error |-> "none", task |-> done]]

\* complete_task that keeps one completion record per occurrence: the new
\* record replaces the ones the occurrence had.
complete_task_ReplaceRecord(task_id, completion) ==
    LET req == [op |-> "complete_task", id |-> task_id, body |-> completion]
        task == occs[task_id]
        done == [task EXCEPT !.completed = TRUE,
                             !.completed_at = Some(UtcNow),
                             !.notes = completion.notes,
                             !.photo_url = completion.photo_url]
        cid == generate_uuid(UsedIds)
        task_completion == [task_occurrence_id |-> task_id,
                            instrument_id |-> task.instrument_id,
                            task_type |-> task.task_type,
                            completed_at |-> Some(UtcNow),
                            notes |-> completion.notes,
                            photo_url |-> completion.photo_url]
        former == {c \in DOMAIN completions : completions[c].task_occurrence_id = task_id}
    IN  IF task_id \notin DOMAIN occs
        THEN [occs |-> occs, completions |-> completions,
              resp |-> req @@ [status |-> 404, error |-> "Task not found"]]
        ELSE [occs |-> [occs EXCEPT ![task_id] = done],
              completions |-> Merge(Without(completions, former), (cid :> task_completion)),
              resp |-> req @@ [status |-> 200, error |-> "none", task |-> done]]

complete_task(task_id, completion) ==
    LET req == [op |-> "complete_task", id |-> task_id, body |-> completion]
        task == occs[task_id]
        done == [task EXCEPT !.completed = TRUE,
                             !.completed_at = Some(UtcNow),
                             !.notes = completion.notes,
                             !.photo_url = completion.photo_url]
        cid == generate_uuid(UsedIds)
        task_completion == [task_occurrence_id |-> task_id,
                            instrument_id |-> task.instrument_id,
                            task_type |-> task.task_type,
                            completed_at |-> Some(UtcNow),
                            notes |-> completion.notes,
                            photo_url |-> completion.photo_url]
    IN  IF task_id \notin DOMAIN occs
        THEN [occs |-> occs, completions |-> completions,
              resp |-> req @@ [status |-> 404, error |-> "Task not found"]]
        ELSE [occs |-> [occs EXCEPT ![task_id] = done],
              completions |-> Merge(completions, (cid :> task_completion)),
              resp |-> req @@ [status |-> 200, error |-> "none", task |-> done]]

CompleteTask ==
    /\ \E task_id \in DOMAIN occs \cup DOMAIN sessions \cup {NoSuchId},
          completion \in CompletionBodies :
         LET r == complete_task(task_id, completion)
         IN  /\ Cardinality(DOMAIN r.completions) <= MaxCompletions
             /\ occs' = r.occs
             /\ completions' = r.completions
             /\ resp' = r.resp
    /\ UNCHANGED <<instruments, defs, sessions, now, tz, gen>>

---------------------------------------------------------------------------
(* POST /api/tasks/instrument/{instrument_id}/complete-all *)

\* DueTasks without the filter on completed.
DueTasks_CompletedToo(instrument_id) ==
    {o \in DOMAIN occs : /\ occs[o].instrument_id = instrument_id
                         /\ occs[o].due_date <= Today}

\* DueTasks without the filter on the instrument.
DueTasks_AnyInstrument(instrument_id) ==
    {o \in DOMAIN occs : /\ occs[o].due_date <= Today
                         /\ occs[o].completed = FALSE}

\* The rows of the query: this instrument's, due today or before, not completed.
DueTasks(instrument_id) ==
    {o \in DOMAIN occs : /\ occs[o].instrument_id = instrument_id
                         /\ occs[o].due_date <= Today
                         /\ occs[o].completed = FALSE}

\* The rows in the order the loop visits them (the order of insertion).
RECURSIVE InOrder(_)
InOrder(ids) ==
    IF ids = {} THEN <<>>
    ELSE LET m == CHOOSE x \in ids : \A y \in ids : x <= y
         IN  <<m>> \o InOrder(ids \ {m})

\* complete_all_tasks_for_instrument that updates the occurrences and adds
\* no completion record.
complete_all_tasks_for_instrument_NoRecords(instrument_id) ==
    LET tasks == InOrder(DueTasks(instrument_id))
        n == Len(tasks)
        done(o) == [occs[o] EXCEPT !.completed = TRUE, !.completed_at = Some(UtcNow)]
        touched == {tasks[k] : k \in 1 .. n}
    IN  [occs |-> [o \in DOMAIN occs |-> IF o \in touched THEN done(o) ELSE occs[o]],
         completions |-> completions,
         resp |-> [op |-> "complete_all_tasks_for_instrument", id |-> instrument_id,
                   status |-> 200, error |-> "none",
                   completed_count |-> n,
                   tasks |-> [k \in 1 .. n |-> [id |-> tasks[k], task |-> done(tasks[k])]]]]

complete_all_tasks_for_instrument(instrument_id) ==
    LET tasks == InOrder(DueTasks(instrument_id))
        n == Len(tasks)
        done(o) == [occs[o] EXCEPT !.completed = TRUE, !.completed_at = Some(UtcNow)]
        record(o) == [task_occurrence_id |-> o,
                      instrument_id |-> instrument_id,
                      task_type |-> occs[o].task_type,
                      completed_at |-> Some(UtcNow),
                      notes |-> None,
                      photo_url |-> None]
        touched == {tasks[k] : k \in 1 .. n}
        ids == FreshIds(UsedIds, n)
    IN  [occs |-> [o \in DOMAIN occs |-> IF o \in touched THEN done(o) ELSE occs[o]],
         completions |-> Merge(completions,
                               [c \in {ids[k] : k \in 1 .. n} |->
                                   record(tasks[CHOOSE k \in 1 .. n : ids[k] = c])]),
         resp |-> [op |-> "complete_all_tasks_for_instrument", id |-> instrument_id,
                   status |-> 200, error |-> "none",
                   completed_count |-> n,
                   tasks |-> [k \in 1 .. n |-> [id |-> tasks[k], task |-> done(tasks[k])]]]]

CompleteAllTasksForInstrument ==
    /\ \E instrument_id \in DOMAIN instruments \cup {NoSuchId} :
         LET r == complete_all_tasks_for_instrument(instrument_id)
         IN  /\ Cardinality(DOMAIN r.completions) <= MaxCompletions
             /\ occs' = r.occs
             /\ completions' = r.completions
             /\ resp' = r.resp
    /\ UNCHANGED <<instruments, defs, sessions, now, tz, gen>>

---------------------------------------------------------------------------
(* GET /api/analytics/completion-rate *)

Periods == {"weekly", "monthly", "yearly"}

\* round(completed / total * 100, 2), in hundredths of a percent.  No total
\* the model reaches puts the quotient half way between two hundredths.
RatePercent(completed, total) ==
    IF total = 0 THEN 0 ELSE (2 * 10000 * completed + total) \div (2 * total)

\* get_completion_rate with a window that ends today.
get_completion_rate_UpToToday(period) ==
    LET start_date == IF period = "weekly" THEN Today - WeeklyWindow
                                           ELSE Today - MonthlyWindow
        all_tasks == {o \in DOMAIN occs : /\ occs[o].due_date >= start_date
                                          /\ occs[o].due_date <= Today}
        completed_tasks == {o \in all_tasks : occs[o].completed}
    IN  [op |-> "get_completion_rate", period |-> period, status |-> 200,
         completion_rate |-> RatePercent(Cardinality(completed_tasks), Cardinality(all_tasks)),
         total |-> Cardinality(all_tasks),
         completed |-> Cardinality(completed_tasks)]

get_completion_rate(period) ==
    LET start_date == IF period = "weekly" THEN Today - WeeklyWindow
                                           ELSE Today - MonthlyWindow
        all_tasks == {o \in DOMAIN occs : occs[o].due_date >= start_date}
        completed_tasks == {o \in all_tasks : occs[o].completed}
    IN  [op |-> "get_completion_rate", period |-> period, status |-> 200,
         completion_rate |-> RatePercent(Cardinality(completed_tasks), Cardinality(all_tasks)),
         total |-> Cardinality(all_tasks),
         completed |-> Cardinality(completed_tasks)]

GetCompletionRate ==
    /\ \E period \in Periods : resp' = get_completion_rate(period)
    /\ UNCHANGED <<db, now, tz, gen>>

---------------------------------------------------------------------------
(* GET /api/analytics/streak *)

\* The loop over completion_dates, sorted descending: `dates` are those not
\* yet visited, the largest is the next.
RECURSIVE StreakLoop(_, _, _)
StreakLoop(dates, expected_date, streak) ==
    IF dates = {} THEN streak
    ELSE LET comp_date == Max(dates)
         IN  IF comp_date = expected_date \/ comp_date = expected_date - 1
             THEN StreakLoop(dates \ {comp_date}, comp_date - 1, streak + 1)
             ELSE streak

get_completion_streak ==
    LET completion_dates == {DateOf(Get(completions[c].completed_at)) :
                                c \in {x \in DOMAIN completions :
                                          ~IsNone(completions[x].completed_at)}}
    IN  StreakLoop(completion_dates, Today, 0)

get_streak == [op |-> "get_streak", status |-> 200, streak_days |-> get_completion_streak]

\* get_streak that deletes the completion records it has counted.
GetStreak_Consuming ==
    /\ resp' = get_streak
    /\ completions' = EmptyTable
    /\ UNCHANGED <<instruments, defs, occs, sessions, now, tz, gen>>

GetStreak ==
    /\ resp' = get_streak
    /\ UNCHANGED <<db, now, tz, gen>>

---------------------------------------------------------------------------
(* GET /api/analytics/instrument-scores *)

\* One entry per row of Instrument, over that instrument's occurrences
\* with due_date >= today - 30 days.
get_instrument_scores ==
    LET thirty_days_ago == Today - MonthlyWindow
        instr_tasks(i) == {o \in DOMAIN occs : /\ occs[o].instrument_id = i
                                               /\ occs[o].due_date >= thirty_days_ago}
        completed(i) == {o \in instr_tasks(i) : occs[o].completed}
    IN  [op |-> "get_instrument_scores", status |-> 200,
         scores |-> [i \in DOMAIN instruments |->
                       [instrument_name |-> instruments[i].name,
                        score |-> RatePercent(Cardinality(completed(i)),
                                              Cardinality(instr_tasks(i))),
                        total_tasks |-> Cardinality(instr_tasks(i)),
                        completed_tasks |-> Cardinality(completed(i))]]]

GetInstrumentScores ==
    /\ resp' = get_instrument_scores
    /\ UNCHANGED <<db, now, tz, gen>>

---------------------------------------------------------------------------
(* GET /api/analytics/task-breakdown *)

\* all_instruments.get(task.instrument_id, "Unknown")
InstrumentName(instrument_id) ==
    IF instrument_id \in DOMAIN instruments THEN instruments[instrument_id].name
    ELSE "Unknown"

\* Two dictionaries of counters, one keyed by task_type and one keyed by
\* the instrument's name; a key exists once an occurrence has counted for it.
get_task_breakdown ==
    LET types == {occs[o].task_type : o \in DOMAIN occs}
        names == {InstrumentName(occs[o].instrument_id) : o \in DOMAIN occs}
    IN  [op |-> "get_task_breakdown", status |-> 200,
         by_type |-> [t \in types |->
                        Cardinality({o \in DOMAIN occs : occs[o].task_type = t})],
         by_instrument |-> [n \in names |->
                        Cardinality({o \in DOMAIN occs :
                                        InstrumentName(occs[o].instrument_id) = n})]]

GetTaskBreakdown ==
    /\ resp' = get_task_breakdown
    /\ UNCHANGED <<db, now, tz, gen>>

---------------------------------------------------------------------------
(* PracticeSession: POST /api/practice-sessions *)

\* datetime.isoformat() and datetime.fromisoformat(text): the handler takes
\* a missing, an empty and an unparseable text for no time at all.
IsoDateTime(ts) == <<ts>>
ParseDateTime(text) ==
    IF IsNone(text) THEN None
    ELSE IF Len(Get(text)) = 1 THEN Some(Get(text)[1])
    ELSE None

create_practice_session(session) ==
    LET req == [op |-> "create_practice_session"]
        id == generate_uuid(UsedIds)
        new_session == [instrument_id |-> session.instrument_id,
                        practice_session_definition_id |-> session.practice_session_definition_id,
                        start_time |-> ParseDateTime(session.start_time),
                        end_time |-> ParseDateTime(session.end_time),
                        duration |-> session.duration,
                        completed |-> FALSE,
                        completed_at |-> None,
                        notes |-> session.notes,
                        photo_url |-> None]
    IN  IF session.instrument_id \notin DOMAIN instruments
        THEN [sessions |-> sessions,
              resp |-> req @@ [status |-> 404, error |-> "Instrument not found"]]
        ELSE IF session.practice_session_definition_id # PracticeGeneralId
        THEN [sessions |-> sessions,
              resp |-> req @@ [status |-> 404, error |-> "Practice session definition not found"]]
        ELSE [sessions |-> Merge(sessions, (id :> new_session)),
              resp |-> req @@ [status |-> 200, error |-> "none", id |-> id]]

\* The times a request names: none, a session within today, a session that
\* starts today and ends after midnight.
SessionTimes ==
    { [start_time |-> None, end_time |-> None, duration |-> None],
      [start_time |-> Some(IsoDateTime(Combine(Today, 0))),
       end_time |-> Some(IsoDateTime(Combine(Today, 1))), duration |-> Some(1)],
      [start_time |-> Some(IsoDateTime(Combine(Today, 1))),
       end_time |-> Some(IsoDateTime(Combine(Today + 1, 0))), duration |-> Some(1)] }

PracticeSessionCreate ==
    { [instrument_id |-> i, practice_session_definition_id |-> d,
       start_time |-> t.start_time, end_time |-> t.end_time, duration |-> t.duration,
       notes |-> None] :
        i \in DOMAIN instruments \cup {NoSuchId},
        d \in {PracticeGeneralId, NoSuchId},
        t \in SessionTimes }

CreatePracticeSession ==
    /\ Cardinality(DOMAIN sessions) < MaxSessions
    /\ \E session \in PracticeSessionCreate :
         LET r == create_practice_session(session)
         IN  /\ sessions' = r.sessions
             /\ resp' = r.resp
    /\ UNCHANGED <<instruments, defs, occs, completions, now, tz, gen>>

---------------------------------------------------------------------------
(* PUT /api/tasks/{task_id}/reschedule *)

\* new_date is the request's JSON object; new_date.get('due_date') is None
\* when the key is missing, and date.fromisoformat(None) raises TypeError,
\* which the handler's `except (ValueError, KeyError)` does not catch.
reschedule_task(task_id, due_date) ==
    LET req == [op |-> "reschedule_task", id |-> task_id, due_date |-> due_date]
        session == sessions[task_id]
        parsed == FromIsoFormat(Get(due_date))
        new_due_date == parsed.date
        moved ==
            IF ~IsNone(session.start_time)
            THEN [session EXCEPT
                    !.start_time = Some(Combine(new_due_date, TimeOf(Get(session.start_time)))),
                    !.end_time = IF ~IsNone(session.end_time) /\ ~IsNone(session.duration)
                                    /\ Get(session.duration) # 0
                                 THEN Some(Combine(new_due_date, TimeOf(Get(session.end_time))))
                                 ELSE session.end_time]
            ELSE [session EXCEPT !.start_time = Some(Combine(new_due_date, 0))]
    IN  IF task_id \notin DOMAIN sessions
        THEN [sessions |-> sessions,
              resp |-> req @@ [status |-> 404, error |-> "Practice session not found"]]
        ELSE IF IsNone(due_date)
        THEN [sessions |-> sessions, resp |-> req @@ [status |-> 500, error |-> "TypeError"]]
        ELSE IF ~parsed.ok
        THEN [sessions |-> sessions,
              resp |-> req @@ [status |-> 400, error |-> "Invalid date format"]]
        ELSE [sessions |-> [sessions EXCEPT ![task_id] = moved],
              resp |-> req @@ [status |-> 200, error |-> "none", session |-> moved]]

\* The dates a reschedule names: the day after tomorrow and one three
\* weeks on, on no definition's cadence.
RescheduleDates == {Today + 2, Today + 3 * DaysPerWeek}

RescheduleBodies ==
    {None, Some(BadDateText)} \cup {Some(IsoFormat(d)) : d \in RescheduleDates}

RescheduleTask ==
    /\ \E task_id \in DOMAIN occs \cup DOMAIN sessions \cup {NoSuchId},
          due_date \in RescheduleBodies :
         LET r == reschedule_task(task_id, due_date)
         IN  /\ sessions' = r.sessions
             /\ resp' = r.resp
    /\ UNCHANGED <<instruments, defs, occs, completions, now, tz, gen>>

---------------------------------------------------------------------------
(* GET /api/tasks *)

\* The listing reads PracticeSession, not TaskOccurrences, and gives each
\* row the shape of an occurrence: due_date is the date of start_time.
\* func.date(start_time) of a NULL start_time is NULL, and a comparison with
\* NULL keeps no row.
TaskFilters ==
    { [start_date |-> None, end_date |-> None, instrument_id |-> None, completed |-> None],
      [start_date |-> Some(IsoFormat(Today)), end_date |-> None, instrument_id |-> None,
       completed |-> None],
      [start_date |-> None, end_date |-> Some(IsoFormat(Today)), instrument_id |-> None,
       completed |-> Some(FALSE)] }
    \cup { [start_date |-> None, end_date |-> None, instrument_id |-> Some(i),
            completed |-> None] : i \in DOMAIN instruments }

TaskRow(sess, id) ==
    LET session == sess[id]
    IN  [id |-> id,
         task_definition_id |-> None,
         instrument_id |-> session.instrument_id,
         due_date |-> IF IsNone(session.start_time) THEN None
                      ELSE Some(IsoFormat(DateOf(Get(session.start_time)))),
         task_type |-> "Practice",
         completed |-> session.completed,
         completed_at |-> session.completed_at,
         notes |-> session.notes,
         photo_url |-> session.photo_url,
         start_time |-> session.start_time,
         end_time |-> session.end_time,
         duration |-> session.duration,
         practice_session_definition_id |-> session.practice_session_definition_id]

\* The rows of the listing over the table `sess`; the order of the rows
\* (by start_time) is left out.
TaskRows(sess, filters) ==
    LET keep(id) ==
          /\ IsNone(filters.start_date) \/
                (~IsNone(sess[id].start_time) /\
                 DateOf(Get(sess[id].start_time)) >= FromIsoFormat(Get(filters.start_date)).date)
          /\ IsNone(filters.end_date) \/
                (~IsNone(sess[id].start_time) /\
                 DateOf(Get(sess[id].start_time)) <= FromIsoFormat(Get(filters.end_date)).date)
          /\ IsNone(filters.instrument_id) \/
                sess[id].instrument_id = Get(filters.instrument_id)
          /\ IsNone(filters.completed) \/ sess[id].completed = Get(filters.completed)
    IN  {TaskRow(sess, id) : id \in {x \in DOMAIN sess : keep(x)}}

get_tasks(filters) ==
    [op |-> "get_tasks", filters |-> filters, status |-> 200, rows |-> TaskRows(sessions, filters)]

GetTasks ==
    /\ \E filters \in TaskFilters : resp' = get_tasks(filters)
    /\ UNCHANGED <<db, now, tz, gen>>

---------------------------------------------------------------------------
(* POST /api/data/clear *)

\* Four bulk deletes in one transaction: completions, occurrences,
\* definitions, instruments.  PracticeSession.instrument_id is a foreign key
\* to Instrument.id, so with a session left the last delete fails with
\* IntegrityError and the transaction is rolled back.
clear_all_data(confirm) ==
    LET req == [op |-> "clear_all_data", confirm |-> confirm]
        unchanged == [instruments |-> instruments, defs |-> defs, occs |-> occs,
                      completions |-> completions]
    IN  IF ~confirm
        THEN unchanged @@ [resp |-> req @@ [status |-> 400, error |-> "Confirmation required"]]
        ELSE IF \E s \in DOMAIN sessions : sessions[s].instrument_id \in DOMAIN instruments
        THEN unchanged @@ [resp |-> req @@ [status |-> 500, error |-> "IntegrityError"]]
        ELSE [instruments |-> EmptyTable, defs |-> EmptyTable, occs |-> EmptyTable,
              completions |-> EmptyTable,
              resp |-> req @@ [status |-> 200, error |-> "none"]]

ClearAllData ==
    /\ \E confirm \in BOOLEAN :
         LET r == clear_all_data(confirm)
         IN  /\ instruments' = r.instruments
             /\ defs' = r.defs
             /\ occs' = r.occs
             /\ completions' = r.completions
             /\ resp' = r.resp
    /\ UNCHANGED <<sessions, now, tz, gen>>

---------------------------------------------------------------------------
(* Time passes between two requests *)

Tick ==
    /\ now < Combine(StartDay, 0) + MaxTicks
    /\ now' = now + 1
    /\ resp' = NoResp
    /\ UNCHANGED <<db, tz, gen>>

---------------------------------------------------------------------------
(* The server *)

\* The database after init_db() and startup_event() on a new file.
InitDb ==
    /\ instruments = EmptyTable
    /\ defs = EmptyTable
    /\ occs = EmptyTable
    /\ completions = EmptyTable
    /\ sessions = EmptyTable

Init ==
    /\ InitDb
    /\ now = Combine(StartDay, 0)
    /\ tz = 0
    /\ resp = NoResp
    /\ gen = NoGen

\* Requests to the task engine: definitions, occurrences, completions and
\* the analytics over them.
Next ==
    \/ CreateInstrument
    \/ CreateTaskDefinition
    \/ DeleteTaskDefinition
    \/ CompleteTask
    \/ CompleteAllTasksForInstrument
    \/ GetCompletionRate
    \/ GetStreak
    \/ GetInstrumentScores
    \/ ClearAllData
    \/ Tick

Spec == Init /\ [][Next]_vars

\* Requests to the legacy task endpoints, which read and write
\* PracticeSession, next to the ones that create occurrences.
NextSessions ==
    \/ CreateInstrument
    \/ CreateTaskDefinition
    \/ CreatePracticeSession
    \/ RescheduleTask
    \/ GetTasks

SpecSessions == Init /\ [][NextSessions]_vars

\* clear_all_data on a database that may hold practice sessions.
NextClear ==
    \/ CreateInstrument
    \/ CreateTaskDefinition
    \/ CreatePracticeSession
    \/ ClearAllData

SpecClear == Init /\ [][NextClear]_vars

\* The listing next to complete_task, over generated occurrences and
\* practice sessions.
NextListing ==
    \/ CreateInstrument
    \/ CreateTaskDefinition
    \/ CreatePracticeSession
    \/ GetTasks
    \/ CompleteTask

SpecListing == Init /\ [][NextListing]_vars

\* The life of an occurrence: generation, the two completions, the
\* reschedule endpoint and the four analytics queries.
NextLife ==
    \/ CreateInstrument
    \/ CreateTaskDefinition
    \/ CompleteTask
    \/ CompleteAllTasksForInstrument
    \/ RescheduleTask
    \/ GetCompletionRate
    \/ GetStreak
    \/ GetInstrumentScores
    \/ GetTaskBreakdown

SpecLife == Init /\ [][NextLife]_vars

---------------------------------------------------------------------------
(* generate_task_occurrences on a stored definition, for any horizon *)

GenInstrumentId == generate_uuid({PracticeGeneralId})
GenDefId == generate_uuid({PracticeGeneralId, GenInstrumentId})

GenDates == StartDay .. (StartDay + GenSpan)

\* A definition is stored and has no occurrence yet; the call names an
\* end_date or leaves it out.
InitGen ==
    /\ \E ft \in FrequencyType, n \in FreqValues, start \in GenDates,
          end_date \in {None} \cup {Some(h) : h \in GenDates} :
         /\ defs = (GenDefId :> [instrument_id |-> GenInstrumentId,
                                 task_type |-> "Practice",
                                 frequency_type |-> ft,
                                 frequency_value |-> n,
                                 start_date |-> start])
         /\ gen = [pc |-> "call", end_date |-> end_date]
    /\ instruments = (GenInstrumentId :> [name |-> "Trumpet"])
    /\ occs = EmptyTable
    /\ completions = EmptyTable
    /\ sessions = EmptyTable
    /\ now = Combine(StartDay, 0)
    /\ tz = 0
    /\ resp = NoResp

GenerateTaskOccurrences ==
    /\ gen.pc = "call"
    /\ LET end_date == IF IsNone(gen.end_date) THEN DefaultHorizon ELSE Get(gen.end_date)
           g == generate_task_occurrences(GenDefId, defs[GenDefId], end_date, UsedIds)
       IN  /\ occs' = IF g.outcome = "ok" THEN Merge(occs, g.rows) ELSE occs
           /\ gen' = [pc |-> "done", end_date |-> end_date, outcome |-> g.outcome,
                      dates |-> g.dates]
    /\ UNCHANGED <<instruments, defs, completions, sessions, now, tz, resp>>

NextGen == GenerateTaskOccurrences

SpecGen == InitGen /\ [][NextGen]_vars

---------------------------------------------------------------------------
(* generate_task_occurrences on a definition that started in the past *)

\* create_task_definition stores whatever start_date the request names, so a
\* stored definition may have started up to PastSpan days ago (and earlier).
PastSpan == 3

\* A definition with N >= 1 is stored and has no occurrence yet; the call
\* leaves end_date out, as create_task_definition does.
InitPast ==
    /\ \E ft \in FrequencyType, n \in 1 .. MaxFreq,
          start \in (StartDay - PastSpan) .. (StartDay + GenSpan) :
         defs = (GenDefId :> [instrument_id |-> GenInstrumentId,
                              task_type |-> "Practice",
                              frequency_type |-> ft,
                              frequency_value |-> n,
                              start_date |-> start])
    /\ gen = [pc |-> "call", end_date |-> None]
    /\ instruments = (GenInstrumentId :> [name |-> "Trumpet"])
    /\ occs = EmptyTable
    /\ completions = EmptyTable
    /\ sessions = EmptyTable
    /\ now = Combine(StartDay, 0)
    /\ tz = 0
    /\ resp = NoResp

SpecPast == InitPast /\ [][NextGen]_vars

---------------------------------------------------------------------------
(* generate_task_occurrences called twice on one definition *)

\* Two calls for the stored definition GenDefId with the same end_date, each
\* on a database session of its own.  A call first runs its loop, which
\* reads the definition and fills the local list `occurrences`, and then
\* adds the list and commits; the other call may do either step in between.
\* In this specification gen[p] is the position of call p.
Callers == {1, 2}

RegenStarts == {StartDay, StartDay + DaysPerWeek}
RegenHorizons == {None, Some(StartDay + 20), Some(StartDay + GenSpan)}

InitRegen ==
    /\ \E ft \in FrequencyType, n \in FreqValues, start \in RegenStarts,
          end_date \in RegenHorizons :
         /\ defs = (GenDefId :> [instrument_id |-> GenInstrumentId,
                                 task_type |-> "Practice",
                                 frequency_type |-> ft,
                                 frequency_value |-> n,
                                 start_date |-> start])
         /\ gen = [p \in Callers |-> [pc |-> "call", end_date |-> end_date,
                                       outcome |-> "none", dates |-> <<>>,
                                       overlapped |-> FALSE]]
    /\ instruments = (GenInstrumentId :> [name |-> "Trumpet"])
    /\ occs = EmptyTable
    /\ completions = EmptyTable
    /\ sessions = EmptyTable
    /\ now = Combine(StartDay, 0)
    /\ tz = 0
    /\ resp = NoResp

\* commit_occurrences that skips the due dates the definition already has.
commit_occurrences_Deduplicated(def_id, task_def, dates) ==
    LET fresh == SelectSeq(dates, LAMBDA due :
                     ~\E o \in DOMAIN occs : /\ occs[o].task_definition_id = def_id
                                              /\ occs[o].due_date = due)
        n == Len(fresh)
        ids == FreshIds(UsedIds, n)
    IN  Merge(occs, [id \in {ids[k] : k \in 1 .. n} |->
                        NewOccurrence(def_id, task_def,
                                      fresh[CHOOSE k \in 1 .. n : ids[k] = id])])

\* db.add_all(occurrences); db.commit(): one new row per element of the
\* list, whatever the table holds already.
commit_occurrences(def_id, task_def, dates) ==
    LET n == Len(dates)
        ids == FreshIds(UsedIds, n)
    IN  Merge(occs, [id \in {ids[k] : k \in 1 .. n} |->
                        NewOccurrence(def_id, task_def,
                                      dates[CHOOSE k \in 1 .. n : ids[k] = id])])

\* The loop of call p.  A loop that raises or does not end has added nothing.
GenerateBuild ==
    /\ \E p \in Callers :
         /\ gen[p].pc = "call"
         /\ LET task_def == defs[GenDefId]
                end_date == IF IsNone(gen[p].end_date) THEN DefaultHorizon
                            ELSE Get(gen[p].end_date)
                loop == GenLoop(task_def.start_date, end_date,
                                StepDays(task_def.frequency_type, task_def.frequency_value))
            IN  gen' = [gen EXCEPT ![p] = [pc |-> IF loop.outcome = "ok" THEN "built" ELSE "done",
                                           end_date |-> Some(end_date),
                                           outcome |-> loop.outcome,
                                           dates |-> loop.dates,
                                           overlapped |-> FALSE]]
    /\ UNCHANGED <<db, now, tz, resp>>

\* The add_all and commit of call p; `overlapped` records that the other
\* call had run its loop and not yet committed.
GenerateCommit ==
    /\ \E p \in Callers :
         /\ gen[p].pc = "built"
         /\ occs' = commit_occurrences(GenDefId, defs[GenDefId], gen[p].dates)
         /\ gen' = [gen EXCEPT ![p].pc = "done",
                               ![p].overlapped = \E q \in Callers \ {p} : gen[q].pc = "built"]
    /\ UNCHANGED <<instruments, defs, completions, sessions, now, tz, resp>>

NextRegen ==
    \/ GenerateBuild
    \/ GenerateCommit

SpecRegen == InitRegen /\ [][NextRegen]_vars

---------------------------------------------------------------------------
(* The analytics per instrument, over two instruments *)

\* The database after two create_instrument requests, with names that may
\* be equal (the handler and the table accept that), and for each
\* instrument at most one create_task_definition, all on the first day.
BreakdownNames == {"Trumpet", "Cello"}

BreakdownDefs ==
    {None} \cup
    {Some([frequency_type |-> "days", frequency_value |-> 1, start_date |-> StartDay + 89]),
     Some([frequency_type |-> "weekly", frequency_value |-> 1, start_date |-> StartDay + 80]),
     Some([frequency_type |-> "weekly", frequency_value |-> 2, start_date |-> StartDay + 80]),
     Some([frequency_type |-> "monthly", frequency_value |-> 2, start_date |-> StartDay - 61])}

\* The tables t after a create_task_definition for `instrument_id`, or t
\* when no request is made.
SeedDefinition(t, instrument_id, choice) ==
    IF IsNone(choice) THEN t
    ELSE LET used == {PracticeGeneralId} \cup DOMAIN t.instruments
                        \cup DOMAIN t.defs \cup DOMAIN t.occs
             def_id == generate_uuid(used)
             task_def == [instrument_id |-> instrument_id,
                          task_type |-> "Practice",
                          frequency_type |-> Get(choice).frequency_type,
                          frequency_value |-> Get(choice).frequency_value,
                          start_date |-> Get(choice).start_date]
             g == generate_task_occurrences(def_id, task_def, StartDay + HorizonDays,
                                            used \cup {def_id})
         IN  [instruments |-> t.instruments,
              defs |-> Merge(t.defs, (def_id :> task_def)),
              occs |-> Merge(t.occs, g.rows)]

InitBreakdown ==
    /\ \E name1 \in BreakdownNames, name2 \in BreakdownNames,
          choice1 \in BreakdownDefs, choice2 \in BreakdownDefs :
         LET i1 == generate_uuid({PracticeGeneralId})
             i2 == generate_uuid({PracticeGeneralId, i1})
             t0 == [instruments |-> (i1 :> [name |-> name1]) @@ (i2 :> [name |-> name2]),
                    defs |-> EmptyTable, occs |-> EmptyTable]
             t2 == SeedDefinition(SeedDefinition(t0, i1, choice1), i2, choice2)
         IN  /\ instruments = t2.instruments
             /\ defs = t2.defs
             /\ occs = t2.occs
    /\ completions = EmptyTable
    /\ sessions = EmptyTable
    /\ now = Combine(StartDay, 0)
    /\ tz = 0
    /\ resp = NoResp
    /\ gen = NoGen

NextBreakdown ==
    \/ GetTaskBreakdown
    \/ GetInstrumentScores

SpecBreakdown == InitBreakdown /\ [][NextBreakdown]_vars

---------------------------------------------------------------------------
(* Completion over two instruments *)

\* The two completion handlers on the database of InitBreakdown: two
\* instruments, each with occurrences of its own, some due and some not.
NextFrame ==
    \/ CompleteTask
    \/ CompleteAllTasksForInstrument

SpecFrame == InitBreakdown /\ [][NextFrame]_vars

---------------------------------------------------------------------------
(* Two completion requests on database sessions of their own *)

\* Two requests, complete_task or complete_all_tasks_for_instrument, each
\* served with a session of its own (get_db) on the shared database, which
\* database.py opens for several connections at once.  A request first runs
\* its query and reads the clock; its writes reach the database at
\* db.commit(), and the other request may do either step in between.  In this
\* specification gen[p] is the position of request p: the rows it loaded, as
\* loaded, and its `now`.
RaceDefinition ==
    [instrument_id |-> GenInstrumentId,
     task_type |-> "Practice",
     frequency_type |-> "days",
     frequency_value |-> 1,
     start_date |-> StartDay - 1]

\* The database after a create_instrument and a create_task_definition for
\* a daily practice that started yesterday, generated up to tomorrow.
InitRace ==
    /\ instruments = (GenInstrumentId :> [name |-> "Trumpet"])
    /\ defs = (GenDefId :> RaceDefinition)
    /\ occs = generate_task_occurrences(GenDefId, RaceDefinition, StartDay + 1,
                                        {PracticeGeneralId, GenInstrumentId, GenDefId}).rows
    /\ completions = EmptyTable
    /\ sessions = EmptyTable
    /\ now = Combine(StartDay, 0)
    /\ tz = 0
    /\ resp = NoResp
    /\ gen = [p \in Callers |-> [pc |-> "call", op |-> "none", id |-> NoSuchId,
                                 body |-> [notes |-> None, photo_url |-> None],
                                 tasks |-> EmptyTable, now |-> 0]]

\* complete_task up to its db.commit(): the query, the 404, the clock.
CompleteTaskRead ==
    /\ \E p \in Callers, task_id \in DOMAIN occs \cup {NoSuchId},
          completion \in CompletionBodies :
         /\ gen[p].pc = "call"
         /\ IF task_id \notin DOMAIN occs
            THEN /\ gen' = [gen EXCEPT ![p].pc = "done", ![p].op = "complete_task",
                                       ![p].id = task_id, ![p].body = completion]
                 /\ resp' = [op |-> "complete_task", id |-> task_id,
                             status |-> 404, error |-> "Task not found"]
            ELSE /\ gen' = [gen EXCEPT ![p] = [pc |-> "read", op |-> "complete_task",
                                               id |-> task_id, body |-> completion,
                                               tasks |-> (task_id :> occs[task_id]),
                                               now |-> UtcNow]]
                 /\ resp' = NoResp
    /\ UNCHANGED <<db, now, tz>>

\* complete_all_tasks_for_instrument up to its db.commit(): the query of the
\* due rows that are not completed, the clock.
CompleteAllRead ==
    /\ \E p \in Callers, instrument_id \in DOMAIN instruments :
         /\ gen[p].pc = "call"
         /\ gen' = [gen EXCEPT ![p] = [pc |-> "read",
                                       op |-> "complete_all_tasks_for_instrument",
                                       id |-> instrument_id,
                                       body |-> [notes |-> None, photo_url |-> None],
                                       tasks |-> [o \in DueTasks(instrument_id) |-> occs[o]],
                                       now |-> UtcNow]]
    /\ resp' = NoResp
    /\ UNCHANGED <<db, now, tz>>

\* The UPDATE of the flush sets the attributes whose new value differs from
\* the loaded one; the others keep what the database holds.
FlushAttr(current, loaded, new) == IF new = loaded THEN current ELSE new

\* db.commit() of request p: one UPDATE for each loaded row, one INSERT for
\* each completion record, in one transaction.  complete_task also assigns
\* notes and photo_url; the batch leaves them alone and records None.
CompletionCommit ==
    /\ \E p \in Callers :
         /\ gen[p].pc = "read"
         /\ LET r == gen[p]
                tasks == InOrder(DOMAIN r.tasks)
                n == Len(tasks)
                one == r.op = "complete_task"
                done(o) ==
                    [occs[o] EXCEPT
                       !.completed = FlushAttr(@, r.tasks[o].completed, TRUE),
                       !.completed_at = FlushAttr(@, r.tasks[o].completed_at, Some(r.now)),
                       !.notes = IF one THEN FlushAttr(@, r.tasks[o].notes, r.body.notes)
                                 ELSE @,
                       !.photo_url = IF one
                                     THEN FlushAttr(@, r.tasks[o].photo_url, r.body.photo_url)
                                     ELSE @]
                record(o) == [task_occurrence_id |-> o,
                              instrument_id |-> IF one THEN r.tasks[o].instrument_id ELSE r.id,
                              task_type |-> r.tasks[o].task_type,
                              completed_at |-> Some(r.now),
                              notes |-> r.body.notes,
                              photo_url |-> r.body.photo_url]
                ids == FreshIds(UsedIds, n)
            IN  /\ occs' = [o \in DOMAIN occs |->
                               IF o \in DOMAIN r.tasks THEN done(o) ELSE occs[o]]
                /\ completions' = Merge(completions,
                                        [c \in {ids[k] : k \in 1 .. n} |->
                                            record(tasks[CHOOSE k \in 1 .. n : ids[k] = c])])
                /\ resp' = [op |-> r.op, id |-> r.id, status |-> 200, error |-> "none"]
                /\ gen' = [gen EXCEPT ![p].pc = "done"]
    /\ UNCHANGED <<instruments, defs, sessions, now, tz>>

NextRace ==
    \/ CompleteTaskRead
    \/ CompleteAllRead
    \/ CompletionCommit
    \/ Tick

SpecRace == InitRace /\ [][NextRace]_vars

---------------------------------------------------------------------------
(* The server's local time zone *)

\* datetime.utcnow() is the UTC clock; date.today() is the calendar date of
\* the server's local time, which is UTC plus the zone's offset tz (in
\* ticks).  With an offset the two dates differ during part of each day.
MaxOffset == 1

TimeZones == (0 - MaxOffset) .. MaxOffset

\* The database of InitRace on a server in any of the zones.
InitZones ==
    /\ tz \in TimeZones
    /\ instruments = (GenInstrumentId :> [name |-> "Trumpet"])
    /\ defs = (GenDefId :> RaceDefinition)
    /\ occs = generate_task_occurrences(GenDefId, RaceDefinition, StartDay + 1,
                                        {PracticeGeneralId, GenInstrumentId, GenDefId}).rows
    /\ completions = EmptyTable
    /\ sessions = EmptyTable
    /\ now = Combine(StartDay, 0)
    /\ resp = NoResp
    /\ gen = NoGen

NextZones ==
    \/ CompleteTask
    \/ CompleteAllTasksForInstrument
    \/ GetStreak
    \/ Tick

SpecZones == InitZones /\ [][NextZones]_vars

---------------------------------------------------------------------------
(* Properties *)

\* The step the recurrence rule names: N days, N weeks, N months of 30 days.
RuleStep(frequency_type, n) ==
    IF frequency_type = "days" THEN n
    ELSE IF frequency_type = "weekly" THEN 7 * n
    ELSE 30 * n

\* The completion records that refer to occurrence o, in table t
RecordsFor(t, o) == {c \in DOMAIN t : t[c].task_occurrence_id = o}

\* C1: for a frequency value N >= 1 and a horizon H >= start, the
\* occurrences generate_task_occurrences creates are due on start,
\* start + step, start + 2 * step, ... up to the last date <= H: the first is
\* the start date, consecutive ones are step apart, and there are
\* floor((H - start) / step) + 1 of them.
C1_GeneratedSequence ==
    LET task_def == defs[GenDefId]
        start == task_def.start_date
        step == RuleStep(task_def.frequency_type, task_def.frequency_value)
        count == (gen.end_date - start) \div step + 1
        created == OccurrencesOf(GenDefId)
    IN  (gen.pc = "done" /\ task_def.frequency_value >= 1 /\ gen.end_date >= start) =>
          /\ gen.outcome = "ok"
          /\ Len(gen.dates) = count
          /\ gen.dates[1] = start
          /\ \A k \in 1 .. (count - 1) : gen.dates[k + 1] - gen.dates[k] = step
          /\ gen.dates[count] <= gen.end_date
          /\ gen.dates[count] + step > gen.end_date
          /\ Cardinality(created) = count
          /\ {occs[o].due_date : o \in created} = {start + k * step : k \in 0 .. (count - 1)}
          /\ \A o \in created : ~occs[o].completed

C1_Witness ==
    /\ gen.pc = "done"
    /\ defs[GenDefId].frequency_type = "weekly"
    /\ defs[GenDefId].frequency_value = 2
    /\ Cardinality(OccurrencesOf(GenDefId)) = 4

\* C2: when occurrence generation runs for a frequency value N <= 0 it fails
\* with the InvalidFrequency error, and no occurrence of such a definition
\* is ever stored.
C2_InvalidFrequencyRejected ==
    /\ (resp.op = "create_task_definition" /\ resp.frequency_value <= 0
          /\ resp.generate # "not called") => resp.error = "InvalidFrequency"
    /\ \A o \in DOMAIN occs : defs[occs[o].task_definition_id].frequency_value >= 1

\* C3: a create_task_definition that is rejected for a non-positive
\* frequency value or an unparseable start date leaves TaskDefinitions and
\* TaskOccurrences as they were.
C3_RejectedBeforeWrite ==
    [][ (/\ resp'.op = "create_task_definition"
         /\ resp'.status # 200
         /\ (resp'.frequency_value <= 0 \/ resp'.error = "ValueError"))
        => (defs' = defs /\ occs' = occs) ]_vars

\* C4: complete_task on an occurrence that exists succeeds, sets completed
\* and completed_at = now on it, stores the note and the photo, and appends
\* exactly one completion record, which refers to the occurrence and has the
\* same timestamp, note, photo, instrument and task type; the records there
\* were stay as they were.
C4_CompleteOne ==
    [][ (resp'.op = "complete_task" /\ resp'.id \in DOMAIN occs) =>
          LET id == resp'.id
              new == DOMAIN completions' \ DOMAIN completions
          IN  /\ resp'.status = 200
              /\ occs' = [occs EXCEPT ![id] =
                            [@ EXCEPT !.completed = TRUE,
                                      !.completed_at = Some(now),
                                      !.notes = resp'.body.notes,
                                      !.photo_url = resp'.body.photo_url]]
              /\ Cardinality(new) = 1
              /\ \A c \in new :
                    completions'[c] = [task_occurrence_id |-> id,
                                       instrument_id |-> occs[id].instrument_id,
                                       task_type |-> occs[id].task_type,
                                       completed_at |-> Some(now),
                                       notes |-> resp'.body.notes,
                                       photo_url |-> resp'.body.photo_url]
              /\ \A c \in DOMAIN completions :
                    c \in DOMAIN completions' /\ completions'[c] = completions[c] ]_vars

C4_Witness ==
    /\ resp.op = "complete_task"
    /\ resp.status = 200
    /\ resp.body.notes = Some("done")
    /\ \E c \in RecordsFor(completions, resp.id) :
          completions[c].notes = Some("done") /\ completions[c].completed_at = Some(now)

\* C5: complete_task on an occurrence that is completed and has one
\* completion record leaves two records for it, and the occurrence's
\* completed_at and notes are those of this second call.
C5_CompleteTwice ==
    [][ (/\ resp'.op = "complete_task"
         /\ resp'.id \in DOMAIN occs
         /\ occs[resp'.id].completed
         /\ Cardinality(RecordsFor(completions, resp'.id)) = 1) =>
          /\ Cardinality(RecordsFor(completions', resp'.id)) = 2
          /\ occs'[resp'.id].completed
          /\ occs'[resp'.id].completed_at = Some(now)
          /\ occs'[resp'.id].notes = resp'.body.notes ]_vars

C5_Witness ==
    /\ resp.op = "complete_task"
    /\ resp.status = 200
    /\ Cardinality(RecordsFor(completions, resp.id)) = 2
    /\ \E c \in RecordsFor(completions, resp.id) :
          /\ completions[c].completed_at # occs[resp.id].completed_at
          /\ completions[c].notes # occs[resp.id].notes
    /\ occs[resp.id].completed_at = Some(now)

\* C6: complete_all_tasks_for_instrument transitions exactly the instrument's
\* occurrences with due_date <= today and completed = false: it returns their
\* number, each of them gets completed_at = now, no other occurrence changes,
\* and exactly that many completion records are appended, one per
\* transitioned occurrence.
C6_CompleteAllDue ==
    [][ resp'.op = "complete_all_tasks_for_instrument" =>
          LET due == {o \in DOMAIN occs : /\ occs[o].instrument_id = resp'.id
                                          /\ occs[o].due_date <= Today
                                          /\ ~occs[o].completed}
              new == DOMAIN completions' \ DOMAIN completions
          IN  /\ resp'.status = 200
              /\ resp'.completed_count = Cardinality(due)
              /\ {resp'.tasks[k].id : k \in DOMAIN resp'.tasks} = due
              /\ DOMAIN occs' = DOMAIN occs
              /\ \A o \in due : occs'[o] = [occs[o] EXCEPT !.completed = TRUE,
                                                            !.completed_at = Some(now)]
              /\ \A o \in DOMAIN occs \ due : occs'[o] = occs[o]
              /\ Cardinality(new) = Cardinality(due)
              /\ \A o \in due : Cardinality(RecordsFor(completions', o) \cap new) = 1
              /\ \A c \in new : /\ completions'[c].task_occurrence_id \in due
                                 /\ completions'[c].completed_at = Some(now)
              /\ \A c \in DOMAIN completions :
                    c \in DOMAIN completions' /\ completions'[c] = completions[c] ]_vars

C6_Witness ==
    /\ resp.op = "complete_all_tasks_for_instrument"
    /\ resp.completed_count = 2
    /\ \E o \in DOMAIN occs : occs[o].instrument_id = resp.id /\ ~occs[o].completed
    /\ \A k \in 1 .. 2 : occs[resp.tasks[k].id].completed_at = Some(now)

\* C7: delete_task_definition of a definition that exists removes every
\* occurrence generated from it and leaves the completion records as they
\* were, also when some of the occurrences are completed.
C7_DeleteCascades ==
    [][ (resp'.op = "delete_task_definition" /\ resp'.id \in DOMAIN defs) =>
          /\ resp'.id \notin DOMAIN defs'
          /\ \A o \in DOMAIN occs' : occs'[o].task_definition_id # resp'.id
          /\ completions' = completions ]_vars

\* The days with a completion, and the number of consecutive ones counted
\* back from `from`.
CompletionDays == {DateOf(Get(completions[c].completed_at)) : c \in DOMAIN completions}

ConsecutiveDays(from) ==
    Cardinality({k \in 0 .. Cardinality(CompletionDays) :
                    \A j \in 0 .. k : (from - j) \in CompletionDays})

\* C8: the streak is the number of consecutive days with a completion,
\* counted back from today, or from yesterday when today has none; a day
\* without a completion ends it, and it is 0 without completions.
C8_Streak ==
    resp.op = "get_streak" =>
        resp.streak_days = IF Today \in CompletionDays
                           THEN ConsecutiveDays(Today)
                           ELSE ConsecutiveDays(Today - 1)

\* C9: a reschedule of a generated occurrence to a valid date D succeeds, and
\* the listing then has the occurrence with due_date = D.
NoFilters == [start_date |-> None, end_date |-> None, instrument_id |-> None, completed |-> None]

C9_RescheduleRoundTrip ==
    (/\ resp.op = "reschedule_task"
     /\ resp.id \in DOMAIN occs
     /\ ~IsNone(resp.due_date)
     /\ FromIsoFormat(Get(resp.due_date)).ok) =>
        /\ resp.status = 200
        /\ \E row \in TaskRows(sessions, NoFilters) :
              row.id = resp.id /\ row.due_date = resp.due_date

\* C10: get_completion_rate counts as total the occurrences with
\* due_date >= today - 7 (weekly) or today - 30 (monthly), whatever lies
\* ahead included, and as completed those of them that are completed; with a
\* total of 0 it answers rate 0, total 0, completed 0.
C10_CompletionRate ==
    (resp.op = "get_completion_rate" /\ resp.period \in {"weekly", "monthly"}) =>
        LET from == IF resp.period = "weekly" THEN Today - 7 ELSE Today - 30
            counted == {o \in DOMAIN occs : occs[o].due_date >= from}
        IN  /\ resp.status = 200
            /\ resp.total = Cardinality(counted)
            /\ resp.completed = Cardinality({o \in counted : occs[o].completed})
            /\ resp.completed <= resp.total
            /\ resp.total = 0 => (resp.completion_rate = 0 /\ resp.completed = 0)

C10_Witness ==
    /\ resp.op = "get_completion_rate"
    /\ resp.period = "weekly"
    /\ resp.completed = 1
    /\ resp.total > resp.completed
    /\ \E o \in DOMAIN occs : occs[o].due_date < Today - 7
    /\ \E o \in DOMAIN occs : occs[o].due_date > Today

\* C11: get_instrument_scores counts, for every instrument, that
\* instrument's occurrences with today - 30 <= due_date <= today and no
\* others: total_tasks is their number, completed_tasks the number of
\* completed ones among them, the score is their ratio in percent, and 0
\* when the instrument has none in the window.
C11_ScoreWindow ==
    resp.op = "get_instrument_scores" =>
        /\ DOMAIN resp.scores = DOMAIN instruments
        /\ \A i \in DOMAIN instruments :
              LET window == {o \in DOMAIN occs : /\ occs[o].instrument_id = i
                                                 /\ occs[o].due_date >= Today - 30
                                                 /\ occs[o].due_date <= Today}
                  done == {o \in window : occs[o].completed}
              IN  /\ resp.scores[i].total_tasks = Cardinality(window)
                  /\ resp.scores[i].completed_tasks = Cardinality(done)
                  /\ resp.scores[i].score =
                        IF window = {} THEN 0
                        ELSE (2 * 10000 * Cardinality(done) + Cardinality(window))
                                \div (2 * Cardinality(window))

\* C12: completed is terminal: an occurrence that is completed before a
\* step and still exists after it is completed after it, whichever of
\* complete_task, complete_all_tasks_for_instrument, reschedule_task,
\* generation and the analytics queries the step is.
C12_CompletedIsTerminal ==
    [][ \A o \in DOMAIN occs :
           (occs[o].completed /\ o \in DOMAIN occs') => occs'[o].completed ]_vars

C12_Witness ==
    /\ resp.op = "reschedule_task"
    /\ resp.id \in DOMAIN occs
    /\ occs[resp.id].completed
    /\ Cardinality(RecordsFor(completions, resp.id)) = 2
    /\ \E o \in DOMAIN occs : ~occs[o].completed

\* C13: the update of the occurrence and the insert of the completion
\* record are committed together: in every state an occurrence is completed
\* if and only if at least one completion record refers to it.
C13_CompletedIffRecorded ==
    \A o \in DOMAIN occs : occs[o].completed <=> RecordsFor(completions, o) # {}

C13_Witness ==
    /\ resp.op = "complete_all_tasks_for_instrument"
    /\ resp.completed_count = 1
    /\ Cardinality({o \in DOMAIN occs :
                       occs[o].completed /\ Cardinality(RecordsFor(completions, o)) = 1}) = 2
    /\ \E o \in DOMAIN occs : ~occs[o].completed /\ RecordsFor(completions, o) = {}

\* Every completion record there is before a step is there after it, with
\* the same fields.
RecordsKept ==
    \A c \in DOMAIN completions :
        c \in DOMAIN completions' /\ completions'[c] = completions[c]

C15_OccurrencesFollowRule ==
    \A d \in DOMAIN defs :
        LET created == OccurrencesOf(d)
            dates == {occs[o].due_date : o \in created}
            n == Cardinality(dates)
            start == defs[d].start_date
            step == RuleStep(defs[d].frequency_type, defs[d].frequency_value)
        IN  /\ Cardinality(created) = n
            /\ \A due \in dates : due >= start
            /\ dates = {start + k * step : k \in 0 .. (n - 1)}
            /\ \A due \in dates : due <= Today + 90
            /\ defs[d].frequency_value >= 1 => start + n * step > StartDay + 90

C15_Witness ==
    /\ resp.op = "reschedule_task"
    /\ resp.id \in DOMAIN occs
    /\ ~IsNone(resp.due_date)
    /\ FromIsoFormat(Get(resp.due_date)).ok
    /\ defs[occs[resp.id].task_definition_id].frequency_value = 2
    /\ Cardinality(OccurrencesOf(occs[resp.id].task_definition_id)) = 3
    /\ occs[resp.id].completed

\* C16: create_task_definition with an instrument_id no instrument has
\* fails with 404 "Instrument not found" and writes no definition and no
\* occurrence.
C16_UnknownInstrument ==
    [][ (/\ resp'.op = "create_task_definition"
         /\ resp'.instrument_id \notin DOMAIN instruments) =>
          /\ resp'.status = 404
          /\ resp'.error = "Instrument not found"
          /\ defs' = defs
          /\ occs' = occs ]_vars

C16_Witness ==
    /\ resp.op = "create_task_definition"
    /\ resp.instrument_id \notin DOMAIN instruments
    /\ DOMAIN instruments # {}
    /\ resp.frequency_value = 2
    /\ resp.status = 404
    /\ defs = EmptyTable

\* C17: reschedule_task of a stored record with a due date that is missing
\* or is no date fails with the client error 400 "Invalid date format";
\* reschedule_task of an id no record has fails with 404; in both cases
\* the stored records are as they were.
C17_RescheduleErrors ==
    [][ resp'.op = "reschedule_task" =>
          /\ (/\ resp'.id \in DOMAIN sessions
               /\ (IsNone(resp'.due_date) \/ ~FromIsoFormat(Get(resp'.due_date)).ok)) =>
                /\ resp'.status = 400
                /\ resp'.error = "Invalid date format"
                /\ sessions' = sessions
                /\ occs' = occs
          /\ resp'.id \notin (DOMAIN sessions \cup DOMAIN occs) =>
                /\ resp'.status = 404
                /\ sessions' = sessions
                /\ occs' = occs ]_vars

\* C18: generation does not deduplicate: when two calls for the same
\* definition (N >= 1) with the same horizon have both finished, one after
\* the other or interleaved, every due date of the sequence start,
\* start + step, ... <= horizon has exactly two occurrences, and there is no
\* other occurrence.
C18_NoDeduplication ==
    LET task_def == defs[GenDefId]
        start == task_def.start_date
        step == RuleStep(task_def.frequency_type, task_def.frequency_value)
        horizon == Get(gen[1].end_date)
        sequence == IF horizon >= start
                    THEN {start + k * step : k \in 0 .. ((horizon - start) \div step)}
                    ELSE {}
        created == OccurrencesOf(GenDefId)
    IN  (/\ \A p \in Callers : gen[p].pc = "done"
         /\ task_def.frequency_value >= 1) =>
          /\ gen[1].end_date = gen[2].end_date
          /\ \A due \in sequence :
                Cardinality({o \in created : occs[o].due_date = due}) = 2
          /\ \A o \in created : occs[o].due_date \in sequence
          /\ DOMAIN occs = created

C18_Witness ==
    /\ \A p \in Callers : gen[p].pc = "done"
    /\ \E p \in Callers : gen[p].overlapped
    /\ defs[GenDefId].frequency_value = 2
    /\ Cardinality(DOMAIN occs) = 10
    /\ Cardinality({occs[o].due_date : o \in DOMAIN occs}) = 5

\* C19: the analytics queries get_completion_rate, get_streak,
\* get_instrument_scores and get_task_breakdown write nothing: the
\* definitions, occurrences, completion records and instruments are the
\* same after each of them as before.
AnalyticsOps ==
    {"get_completion_rate", "get_streak", "get_instrument_scores", "get_task_breakdown"}

C19_AnalyticsArePure ==
    [][ resp'.op \in AnalyticsOps =>
          /\ defs' = defs
          /\ occs' = occs
          /\ completions' = completions
          /\ instruments' = instruments ]_vars

C19_Witness ==
    /\ resp.op = "get_streak"
    /\ resp.streak_days = 1
    /\ Cardinality(DOMAIN completions) = 2
    /\ \E o \in DOMAIN occs : occs[o].completed
    /\ \E o \in DOMAIN occs : ~occs[o].completed

\* The sum of the counters of a dictionary.
RECURSIVE SumOf(_)
SumOf(counts) ==
    IF DOMAIN counts = {} THEN 0
    ELSE LET key == CHOOSE x \in DOMAIN counts : TRUE
         IN  counts[key] + SumOf([x \in DOMAIN counts \ {key} |-> counts[x]])

\* C20: get_task_breakdown gives one count per task type and one per
\* instrument: the count of each instrument (0 when it is not listed) is
\* the number of occurrences that belong to it, and the counts per
\* instrument and the counts per task type each add up to the number of
\* occurrences, whatever their due dates.
C20_Breakdown ==
    resp.op = "get_task_breakdown" =>
        /\ \A i \in DOMAIN instruments :
              LET name == instruments[i].name
                  count == IF name \in DOMAIN resp.by_instrument
                           THEN resp.by_instrument[name] ELSE 0
              IN  count = Cardinality({o \in DOMAIN occs : occs[o].instrument_id = i})
        /\ SumOf(resp.by_instrument) = Cardinality(DOMAIN occs)
        /\ SumOf(resp.by_type) = Cardinality(DOMAIN occs)

\* C21: generate_task_occurrences with an end date before the definition's
\* start date succeeds and creates no occurrence, and for every end date no
\* occurrence it creates is due after the end date.
C21_NothingPastHorizon ==
    gen.pc = "done" =>
        /\ gen.end_date < defs[GenDefId].start_date =>
              (gen.outcome = "ok" /\ gen.dates = <<>> /\ occs = EmptyTable)
        /\ \A o \in DOMAIN occs : occs[o].due_date <= gen.end_date
        /\ \A k \in 1 .. Len(gen.dates) : gen.dates[k] <= gen.end_date

C21_Witness ==
    /\ gen.pc = "done"
    /\ gen.end_date = defs[GenDefId].start_date - 1
    /\ defs[GenDefId].frequency_value = 1
    /\ gen.outcome = "ok"
    /\ occs = EmptyTable

\* C22: generate_task_occurrences terminates for every stored definition,
\* a frequency value of 0 or below included: its loop never runs for ever.
C22_GenerationTerminates ==
    gen.pc = "done" => gen.outcome \in {"ok", "OverflowError"}

\* The occurrences that request p loaded while they were pending.
ReadPending(p) == {o \in DOMAIN gen[p].tasks : gen[p].tasks[o].completed = FALSE}

\* C23: when two completion requests that both read one occurrence as
\* pending have both committed, whatever the order of their read and commit
\* steps, that occurrence has exactly one completion record.
C23_OneRecordPerTransition ==
    \A p \in Callers, q \in Callers :
        (p # q /\ gen[p].pc = "done" /\ gen[q].pc = "done") =>
            \A o \in ReadPending(p) \cap ReadPending(q) :
                Cardinality(RecordsFor(completions, o)) = 1

\* C24: complete_all_tasks_for_instrument leaves alone every occurrence that
\* is another instrument's, is due after today or is already completed: its
\* completed flag, completed_at and notes stay as they were and no
\* completion record is added for it.
C24_CompleteAllFrame ==
    [][ resp'.op = "complete_all_tasks_for_instrument" =>
          \A o \in DOMAIN occs :
              (\/ occs[o].instrument_id # resp'.id
               \/ occs[o].due_date > Today
               \/ occs[o].completed) =>
                  /\ o \in DOMAIN occs'
                  /\ occs'[o].completed = occs[o].completed
                  /\ occs'[o].completed_at = occs[o].completed_at
                  /\ occs'[o].notes = occs[o].notes
                  /\ RecordsFor(completions', o) = RecordsFor(completions, o) ]_vars

C24_Witness ==
    /\ resp.op = "complete_all_tasks_for_instrument"
    /\ resp.completed_count = 1
    /\ \E o \in DOMAIN occs : /\ occs[o].instrument_id = resp.id
                              /\ occs[o].completed
                              /\ occs[o].notes = Some("done")
                              /\ Cardinality(RecordsFor(completions, o)) = 1
    /\ \E o \in DOMAIN occs : /\ occs[o].instrument_id = resp.id
                              /\ occs[o].due_date > Today
                              /\ ~occs[o].completed
    /\ \E o \in DOMAIN occs : /\ occs[o].instrument_id # resp.id
                              /\ occs[o].due_date <= Today
                              /\ ~occs[o].completed

\* C25: a generate_task_occurrences call with the default end date
\* (today + 90 days) for a definition with N >= 1 creates at most 91
\* occurrences, whatever the definition's start date.
C25_BoundedByHorizon ==
    (gen.pc = "done" /\ gen.end_date = DefaultHorizon
       /\ defs[GenDefId].frequency_value >= 1) =>
        /\ Len(gen.dates) <= HorizonDays + 1
        /\ Cardinality(OccurrencesOf(GenDefId)) <= HorizonDays + 1

\* C26: a reschedule_task that succeeds on a session with a start time, an
\* end time and a duration keeps end_time - start_time, and keeps
\* end_time >= start_time if that held before, also for a session that ends
\* on the calendar day after it starts.
C26_RescheduleKeepsLength ==
    [][ (/\ resp'.op = "reschedule_task"
         /\ resp'.status = 200
         /\ ~IsNone(sessions[resp'.id].start_time)
         /\ ~IsNone(sessions[resp'.id].end_time)
         /\ ~IsNone(sessions[resp'.id].duration)) =>
          LET old == sessions[resp'.id]
              new == sessions'[resp'.id]
          IN  /\ Get(new.end_time) - Get(new.start_time)
                    = Get(old.end_time) - Get(old.start_time)
              /\ Get(old.end_time) >= Get(old.start_time) =>
                    Get(new.end_time) >= Get(new.start_time) ]_vars

\* C27: clear_all_data with confirm = true succeeds in every reachable state
\* and leaves no completion record, occurrence, definition or instrument;
\* with confirm = false it fails and changes nothing.
C27_ClearAllData ==
    [][ resp'.op = "clear_all_data" =>
          IF resp'.confirm
          THEN /\ resp'.status = 200
               /\ completions' = EmptyTable
               /\ occs' = EmptyTable
               /\ defs' = EmptyTable
               /\ instruments' = EmptyTable
          ELSE /\ resp'.status = 400
               /\ db' = db ]_vars

\* C28: right after a complete_task or a
\* complete_all_tasks_for_instrument that takes at least one occurrence
\* from pending to completed, get_completion_streak returns at least 1,
\* whatever the offset between the UTC clock and the local date.
C28_StreakAfterCompletion ==
    [][ (\/ /\ resp'.op = "complete_task"
            /\ resp'.status = 200
            /\ ~occs[resp'.id].completed
         \/ /\ resp'.op = "complete_all_tasks_for_instrument"
            /\ resp'.completed_count >= 1)
        => get_completion_streak' >= 1 ]_vars

\* The ids of the rows of a listing.
ListedIds(rows) == {row.id : row \in rows}

\* C29: every occurrence that create_task_definition generated is in the
\* unfiltered listing of get_tasks, and a complete_task of an id the listing
\* has just returned does not fail with 404.
C29_ListedCanBeCompleted ==
    [][ /\ (resp'.op = "get_tasks" /\ resp'.filters = NoFilters) =>
              DOMAIN occs' \subseteq ListedIds(resp'.rows)
        /\ (resp.op = "get_tasks" /\ resp'.op = "complete_task"
               /\ resp'.id \in ListedIds(resp.rows)) =>
              resp'.status # 404 ]_vars

\* C30: in every state a completed occurrence's completed_at is the largest
\* completed_at of the completion records that reference it, also when
\* completion requests overlap.
C30_CompletedAtIsLatestRecord ==
    \A o \in DOMAIN occs :
        occs[o].completed =>
            LET stamps == {Get(completions[c].completed_at) :
                              c \in RecordsFor(completions, o)}
            IN  /\ stamps # {}
                /\ occs[o].completed_at = Some(Max(stamps))

=============================================================================
